---- MODULE Spec2Model ----
(***************************************************************************)
(* A model of react-native-fundamentals: the ToastProvider (auto-dismiss   *)
(* timer), the ThemeProvider (theme mode persisted in AsyncStorage) and    *)
(* the command line tool that copies component files into a project.       *)
(* Each part has its own specification (SpecToast, FairToast, SpecTheme,   *)
(* FairTheme, SpecCli); the variables of the other parts stay at their     *)
(* initial values.                                                         *)
(***************************************************************************)
EXTENDS Integers, Sequences, FiniteSets, TLC

VARIABLES
    \* ---- ToastProvider (context/ToastContext.tsx)
    currentToast,   \* useState<ToastItem | null>: NULL or [id, props]
    nextIdRef,      \* useRef(0): the id the next toast gets
    timeoutRef,     \* useRef<timeout | null>: NULL or JsNumber(handle)
    timers,         \* the host's pending timers: set of [handle, remaining]
    nextHandle,     \* the handle the host's next setTimeout returns
    lastOp,         \* history: the last operation of the provider that ran
    lastDuration,   \* history: the duration argument of the last showToast
    replaced,       \* history: the toast on display when showToast was last called
    startedFor,     \* history: [handle, id] for each timer started: the toast it was started for
    \* ---- ThemeProvider (context/ThemeContext.tsx)
    themeMode,          \* useState<ThemeMode>("system")
    systemColorScheme,  \* useColorScheme(): "light", "dark" or "null"
    isDark,             \* useMemo cell, deps [themeMode, systemColorScheme]
    theme,              \* useMemo cell, deps [isDark]
    storage,            \* AsyncStorage: the item stored under "themeMode"
    loadPc,             \* the load effect's async function
    loadValue,          \* what its getItem read
    pendingWrites,      \* setItem requests issued and not yet completed
    errors,             \* what console.error logged: "load", "save"
    setCalls,           \* number of setThemeMode calls made by the application
    storedAtMount,      \* history: what the storage held when the provider mounted
    \* ---- the command line tool (cli.js)
    project,        \* the project's files: name -> "absent", "user", "package"
    broken,         \* the files whose copy fails (fs-extra throws)
    output,         \* what the last run printed, in order
    lastName,       \* history: the componentName of the last run ("" if none)
    runs,           \* number of runs of "add" so far
    \* ---- AlertProvider (context/AlertContext.tsx)
    isVisible,      \* useState(false)
    alertContent,   \* useState<ReactNode>(null)
    alertOptions,   \* useState<AlertOptions>({})
    lastAlertOp,    \* history: the last operation of the provider that ran
    alertCalls,     \* number of showAlert calls so far
    lastShowAlert,  \* history: the arguments of the last showAlert and the options before it
    \* ---- TextInput (components/ui/TextInput.tsx)
    inputProps,     \* the props of the current render
    isFocused,      \* useState(false)
    inputView,      \* what the current render shows below the input
    inputEvent,     \* history: the last event and the callback it invoked
    \* ---- Button (components/ui/Button.tsx)
    buttonProps,    \* the props of the current render
    isHovered,      \* useState(false)
    buttonView,     \* the colours of the current render
    \* ---- SegmentedControl (components/ui/SegmentedControl.tsx)
    controlProps,   \* the props of the current render
    controlView,    \* the tabs of the current render
    controlEvent,   \* history: the last press and the onTabPress call it made
    \* ---- the hooks useToast and useAlert
    hookLog         \* history: the calls of the hooks so far and their outcomes

toastVars == <<currentToast, nextIdRef, timeoutRef, timers, nextHandle,
               lastOp, lastDuration, replaced, startedFor>>

themeVars == <<themeMode, systemColorScheme, isDark, theme, storage, loadPc,
               loadValue, pendingWrites, errors, setCalls, storedAtMount>>

cliVars == <<project, broken, output, lastName, runs>>

alertVars == <<isVisible, alertContent, alertOptions, lastAlertOp, alertCalls,
               lastShowAlert>>

inputVars == <<inputProps, isFocused, inputView, inputEvent>>

buttonVars == <<buttonProps, isHovered, buttonView>>

controlVars == <<controlProps, controlView, controlEvent>>

hookVars == <<hookLog>>

uiVars == <<alertVars, inputVars, buttonVars, controlVars, hookVars>>

vars == <<toastVars, themeVars, cliVars, uiVars>>

NULL == [t |-> "null"]

(***************************************************************************)
(* JavaScript values of the duration parameter: a number, the string       *)
(* "infinite", or undefined when the caller omits it.                      *)
(***************************************************************************)
JsUndefined == [t |-> "undefined"]
JsNumber(n) == [t |-> "number", n |-> n]
JsString(s) == [t |-> "string", s |-> s]

IsNumber(v) == v.t = "number"
IsInfinite(v) == v.t = "string" /\ v.s = "infinite"

\* JavaScript truthiness of a number or a string
JsTruthy(v) ==
    CASE v.t = "number" -> v.n # 0
      [] v.t = "string" -> v.s # ""
      [] OTHER -> FALSE

\* ---- bounds of the model
MaxToasts == 3

\* the durations a caller passes (milliseconds), besides "infinite" and none
DurationValues == {-1, 0, 1, 250}
Durations ==
    {JsNumber(n) : n \in DurationValues} \cup {JsString("infinite"), JsUndefined}
Messages == {"saved", "failed"}

\* showToast = ({ duration = 3000, ...props })
DefaultDuration == 3000

WithDefault(duration) ==
    IF duration = JsUndefined THEN JsNumber(DefaultDuration) ELSE duration

(***************************************************************************)
(* The host's timers.  setTimeout(fn, d) registers a timer that is due     *)
(* after d milliseconds (a negative delay counts as 0) and returns a       *)
(* positive handle; clearTimeout(h) removes the timer with handle h, if it *)
(* is still pending.                                                       *)
(***************************************************************************)
Delay(d) == IF d < 0 THEN 0 ELSE d
setTimeout(ts, h, d) == ts \cup {[handle |-> h, remaining |-> Delay(d)]}
ClearTimeoutNoOp(ts, h) == ts
clearTimeout(ts, h) == {t \in ts : t.handle # h}

\* showToast/hideToast: if (timeoutRef.current) { clearTimeout(...); ... = null }
NoCancel(ts, ref) == ts
CancelWrongHandle(ts, ref) ==
    IF JsTruthy(ref) THEN {t \in ts : t.handle # ref.n + 1} ELSE ts
CancelPending(ts, ref) ==
    IF JsTruthy(ref) THEN clearTimeout(ts, ref.n) ELSE ts

\* showToast: if (duration !== "infinite" && duration)
StartsTimerAnyTruthy(duration) == JsTruthy(duration)
StartsTimer(duration) == ~IsInfinite(duration) /\ JsTruthy(duration)

InitToast ==
    /\ currentToast = NULL
    /\ nextIdRef = 0
    /\ timeoutRef = NULL
    /\ timers = {}
    /\ nextHandle = 1
    /\ lastOp = "none"
    /\ lastDuration = JsUndefined
    /\ replaced = NULL
    /\ startedFor = {}

\* showToast: setCurrentToast({ id, props }) puts the new toast on display,
\* whatever was displayed
KeepsDisplayed(displayed, item) == IF displayed = NULL THEN item ELSE displayed
ReusesDisplayedId(displayed, item) ==
    IF displayed = NULL THEN item ELSE [item EXCEPT !.id = displayed.id]
setCurrentToast(displayed, item) == item

\* hideToast, run with the host's pending timers ts: the pending timer is
\* cleared, the ref is null and no toast is displayed
HideKeepsTimer(ts) ==
    /\ timers' = ts
    /\ timeoutRef' = NULL
    /\ currentToast' = NULL
    /\ UNCHANGED <<nextIdRef, nextHandle, lastDuration, replaced, startedFor>>
hideToast(ts) ==
    /\ timers' = CancelPending(ts, timeoutRef)
    /\ timeoutRef' = NULL
    /\ currentToast' = NULL
    /\ UNCHANGED <<nextIdRef, nextHandle, lastDuration, replaced, startedFor>>

ShowToast(arg, props) ==
    LET duration == WithDefault(arg)
        cleared == CancelPending(timers, timeoutRef)
    IN  /\ nextIdRef < MaxToasts
        /\ currentToast' = setCurrentToast(currentToast,
                                            [id |-> nextIdRef, props |-> props])
        /\ nextIdRef' = nextIdRef + 1
        /\ IF StartsTimer(duration)
             THEN /\ timers' = setTimeout(cleared, nextHandle,
                                          IF IsNumber(duration) THEN duration.n ELSE 0)
                  /\ timeoutRef' = JsNumber(nextHandle)
                  /\ nextHandle' = nextHandle + 1
                  /\ startedFor' = startedFor \cup
                                      {[handle |-> nextHandle, id |-> nextIdRef]}
             ELSE /\ timers' = cleared
                  /\ timeoutRef' = NULL
                  /\ UNCHANGED <<nextHandle, startedFor>>
        /\ lastOp' = "show"
        /\ lastDuration' = arg
        /\ replaced' = currentToast
        /\ UNCHANGED <<themeVars, cliVars, uiVars>>

HideToast ==
    /\ hideToast(timers)
    /\ lastOp' = "hide"
    /\ UNCHANGED <<themeVars, cliVars, uiVars>>

\* the displayed Toast calls its onDismiss prop, which is hideToast
OnDismiss ==
    /\ currentToast # NULL
    /\ hideToast(timers)
    /\ lastOp' = "dismiss"
    /\ UNCHANGED <<themeVars, cliVars, uiVars>>

\* time passes until the next pending timer is due
Elapse ==
    /\ timers # {}
    /\ \A t \in timers : t.remaining > 0
    /\ LET dt == CHOOSE d \in {t.remaining : t \in timers} :
                     \A t \in timers : d <= t.remaining
       IN timers' = {[t EXCEPT !.remaining = t.remaining - dt] : t \in timers}
    /\ UNCHANGED <<currentToast, nextIdRef, timeoutRef, nextHandle, lastOp,
                   lastDuration, replaced, startedFor, themeVars, cliVars, uiVars>>

\* a due timer fires: the host drops it and runs its callback, hideToast()
TimerFires ==
    \E t \in timers :
        /\ t.remaining = 0
        /\ hideToast(timers \ {t})
        /\ lastOp' = "expire"
        /\ UNCHANGED <<themeVars, cliVars, uiVars>>

\* the toast provider is not in use
ToastIdle == InitToast

NextToast ==
    \/ \E arg \in Durations, props \in Messages : ShowToast(arg, props)
    \/ HideToast
    \/ OnDismiss
    \/ Elapse
    \/ TimerFires


(***************************************************************************)
(* ThemeProvider.  The state is taken right after the mount: the first     *)
(* render is done and both effects have run, so the load effect's getItem  *)
(* and the save effect's setItem("system") are issued and not completed.   *)
(* The two requests are independent (neither is awaited before the other   *)
(* is issued) and AsyncStorage promises no order between outstanding       *)
(* requests, so the storage completes them in any order.                   *)
(***************************************************************************)
Modes == {"light", "dark", "system"}
ColorSchemes == {"light", "dark", "null"}
NoItem == "<null>"
\* what the storage may hold under the key at mount
StoredValues == Modes \cup {NoItem, "blue"}

\* ---- bound of the model
MaxSetCalls == 2

\* const isDark = useMemo(...)
IsDarkIgnoresSystem(mode, scheme) == mode = "dark"
ComputeIsDark(mode, scheme) ==
    IF mode = "system" THEN scheme = "dark" ELSE mode = "dark"

\* const theme = useMemo(() => (isDark ? blueDark : blueLight), [isDark])
ComputeTheme(dark) == IF dark THEN "blueDark" ELSE "blueLight"

\* stored === "light" || stored === "dark" || stored === "system"
AnyStoredString(stored) == stored # NoItem
IsStoredMode(stored) == stored = "light" \/ stored = "dark" \/ stored = "system"

NoWrites == [m \in Modes |-> 0]
IssueWrite(ws, m) == [ws EXCEPT ![m] = ws[m] + 1]
CompleteWrite(ws, m) == [ws EXCEPT ![m] = ws[m] - 1]

InitTheme ==
    /\ themeMode = "system"
    /\ systemColorScheme \in ColorSchemes
    /\ isDark = ComputeIsDark(themeMode, systemColorScheme)
    /\ theme = ComputeTheme(isDark)
    /\ storage \in StoredValues
    /\ storedAtMount = storage
    /\ loadPc = "reading"
    /\ loadValue = NoItem
    /\ pendingWrites = IssueWrite(NoWrites, "system")
    /\ errors = {}
    /\ setCalls = 0

\* the theme provider is not mounted
ThemeIdle ==
    /\ themeMode = "system"
    /\ systemColorScheme = "null"
    /\ isDark = FALSE
    /\ theme = "blueLight"
    /\ storage = NoItem
    /\ loadPc = "done"
    /\ loadValue = NoItem
    /\ pendingWrites = NoWrites
    /\ errors = {}
    /\ setCalls = 0
    /\ storedAtMount = NoItem

\* a render with the given mode and colour scheme, and the effects it runs:
\* the memo cells are recomputed and, if themeMode changed, the save effect
\* issues setItem(THEME_MODE_KEY, themeMode)
Render(mode, scheme) ==
    /\ themeMode' = mode
    /\ systemColorScheme' = scheme
    /\ isDark' = ComputeIsDark(mode, scheme)
    /\ theme' = ComputeTheme(isDark')
    /\ pendingWrites' = IF mode # themeMode THEN IssueWrite(pendingWrites, mode)
                        ELSE pendingWrites

\* the application calls setThemeMode(mode)
SetThemeMode(mode) ==
    /\ setCalls < MaxSetCalls
    /\ setCalls' = setCalls + 1
    /\ Render(mode, systemColorScheme)
    /\ UNCHANGED <<storage, loadPc, loadValue, errors, storedAtMount, toastVars, cliVars, uiVars>>

\* the device's colour scheme changes
SystemSchemeChanges(scheme) ==
    /\ scheme # systemColorScheme
    /\ Render(themeMode, scheme)
    /\ UNCHANGED <<storage, loadPc, loadValue, errors, setCalls, storedAtMount, toastVars, cliVars, uiVars>>

\* the storage serves the load effect's getItem
StorageReads ==
    /\ loadPc = "reading"
    /\ loadPc' = "resolved"
    /\ loadValue' = storage
    /\ UNCHANGED <<themeMode, systemColorScheme, isDark, theme, storage,
                   pendingWrites, errors, setCalls, storedAtMount, toastVars, cliVars, uiVars>>

\* the load effect's getItem fails
StorageReadFails ==
    /\ loadPc = "reading"
    /\ loadPc' = "rejected"
    /\ UNCHANGED <<themeMode, systemColorScheme, isDark, theme, storage,
                   loadValue, pendingWrites, errors, setCalls, storedAtMount, toastVars, cliVars, uiVars>>

\* the load effect's function resumes after its await
LoadFailureUnlogged ==
    \/ /\ loadPc = "resolved"
       /\ loadPc' = "done"
       /\ IF IsStoredMode(loadValue)
            THEN Render(loadValue, systemColorScheme)
            ELSE UNCHANGED <<themeMode, systemColorScheme, isDark, theme,
                             pendingWrites>>
       /\ UNCHANGED <<storage, loadValue, errors, setCalls, storedAtMount, toastVars, cliVars, uiVars>>
    \/ /\ loadPc = "rejected"
       /\ loadPc' = "done"
       /\ UNCHANGED <<themeMode, systemColorScheme, isDark, theme, storage, errors,
                      loadValue, pendingWrites, setCalls, storedAtMount, toastVars, cliVars, uiVars>>
LoadResumes ==
    \/ /\ loadPc = "resolved"
       /\ loadPc' = "done"
       /\ IF IsStoredMode(loadValue)
            THEN Render(loadValue, systemColorScheme)
            ELSE UNCHANGED <<themeMode, systemColorScheme, isDark, theme,
                             pendingWrites>>
       /\ UNCHANGED <<storage, loadValue, errors, setCalls, storedAtMount, toastVars, cliVars, uiVars>>
    \/ /\ loadPc = "rejected"
       /\ loadPc' = "done"
       /\ errors' = errors \cup {"load"}
       /\ UNCHANGED <<themeMode, systemColorScheme, isDark, theme, storage,
                      loadValue, pendingWrites, setCalls, storedAtMount, toastVars, cliVars, uiVars>>

\* the storage completes one outstanding setItem
StorageWrites(m) ==
    /\ pendingWrites[m] > 0
    /\ storage' = m
    /\ pendingWrites' = CompleteWrite(pendingWrites, m)
    /\ UNCHANGED <<themeMode, systemColorScheme, isDark, theme, loadPc,
                   loadValue, errors, setCalls, storedAtMount, toastVars, cliVars, uiVars>>

\* one outstanding setItem fails: the save effect catches and logs it
StorageWriteFails(m) ==
    /\ pendingWrites[m] > 0
    /\ pendingWrites' = CompleteWrite(pendingWrites, m)
    /\ errors' = errors \cup {"save"}
    /\ UNCHANGED <<themeMode, systemColorScheme, isDark, theme, storage,
                   loadPc, loadValue, setCalls, storedAtMount, toastVars, cliVars, uiVars>>

NextTheme ==
    \/ \E mode \in Modes : SetThemeMode(mode)
    \/ \E scheme \in ColorSchemes : SystemSchemeChanges(scheme)
    \/ StorageReads
    \/ StorageReadFails
    \/ LoadResumes
    \/ \E m \in Modes : StorageWrites(m)
    \/ \E m \in Modes : StorageWriteFails(m)

(***************************************************************************)
(* The command line tool.  One run of "add <componentName>" is one step:   *)
(* the tool is a single process and nothing else touches the project       *)
(* while it runs.  A file of the project is "absent", "user" (it was there *)
(* before the tool ran, with whatever content) or "package" (the tool      *)
(* copied it).  A copy that fails throws before anything is written.       *)
(***************************************************************************)
availableComponents ==
    <<"Alert", "Button", "RadioButton", "SafeAreaView", "SegmentedControl",
      "Switch", "Text", "TextInput", "Toast", "View">>
availableContexts == <<"AlertContext", "ThemeContext", "ToastContext">>
availableThemes == <<"blueTheme">>

Range(seq) == {seq[i] : i \in DOMAIN seq}
includes(seq, name) == name \in Range(seq)

Files == Range(availableComponents) \cup Range(availableContexts)
            \cup Range(availableThemes)

\* ---- bounds of the model
MaxPreexisting == 1
MaxRuns == 2

\* the componentName arguments tried: every available name, "all", two
\* names that are not available, and "" for a missing name
Requests == Files \cup {"all", "theme", "Buton", ""}
\* the copies that fail: none, or those of one file
BrokenChoices == {{}} \cup {{f} : f \in Files}

\* const isValidComponent = (name) => ...
AcceptsAnyName(name) == TRUE
isValidComponent(name) ==
    \/ includes(availableComponents, name)
    \/ includes(availableContexts, name)
    \/ includes(availableThemes, name)

\* console.log / console.error of one message
Say(st, kind, name) == [st EXCEPT !.out = Append(@, <<kind, name>>)]

\* fs.pathExists(targetPath)
NeverExists(st, name) == FALSE
pathExists(st, name) == st.project[name] # "absent"

\* const copyFile = async (sourcePath, targetPath) => ...
copyFile(st, name) ==
    IF name \in st.broken
      THEN [Say(st, "copyFailed", name) EXCEPT !.ok = FALSE]
      ELSE [Say([st EXCEPT !.project[name] = "package"], "created", name)
              EXCEPT !.ok = TRUE]

\* const addRelatedContext = async (contextName) => ...
AddRelatedOverwrites(st, contextName) ==
    LET copied == copyFile(st, contextName)
    IN IF copied.ok THEN Say(copied, "autoAdded", contextName) ELSE copied
addRelatedContext(st, contextName) ==
    IF ~includes(availableContexts, contextName)
      THEN [Say(st, "contextNotAvailable", contextName) EXCEPT !.ok = FALSE]
    ELSE IF pathExists(st, contextName)
      THEN [Say(st, "exists", contextName) EXCEPT !.ok = TRUE]
    ELSE LET copied == copyFile(st, contextName)
         IN IF copied.ok THEN Say(copied, "autoAdded", contextName) ELSE copied

\* addComponent, the three branches on the kind of componentName
AddByKind(st, componentName) ==
    IF includes(availableComponents, componentName) THEN
        IF pathExists(st, componentName)
          THEN Say(st, "exists", componentName)
          ELSE LET copied == copyFile(st, componentName)
                   related ==
                     IF componentName = "Toast"
                       THEN addRelatedContext(copied, "ToastContext")
                     ELSE IF componentName = "Alert"
                       THEN addRelatedContext(copied, "AlertContext")
                     ELSE copied
               IN [related EXCEPT !.added = TRUE]
    ELSE IF includes(availableContexts, componentName) THEN
        IF pathExists(st, componentName)
          THEN Say(st, "exists", componentName)
          ELSE [copyFile(st, componentName) EXCEPT !.added = TRUE]
    ELSE IF includes(availableThemes, componentName) THEN
        IF pathExists(st, componentName)
          THEN Say(st, "exists", componentName)
          ELSE [addRelatedContext(copyFile(st, componentName), "ThemeContext")
                  EXCEPT !.added = TRUE]
    ELSE st

\* addComponent, the messages after the branches: if (added) { ... }
Report(st, componentName) ==
    IF st.added
      THEN LET said == Say(st, "success", componentName)
           IN IF componentName \in {"Toast", "SafeAreaView"}
                THEN Say(said, "dependencies", componentName)
                ELSE said
      ELSE st

RECURSIVE addComponent(_, _)
RECURSIVE AddItems(_, _)

\* for (const item of allItems) { await addComponent(item); }
RECURSIVE StopsAfterFirstAdded(_, _)
StopsAfterFirstAdded(st, items) ==
    IF items = <<>> THEN st
    ELSE LET one == addComponent(st, Head(items))
         IN IF one.added THEN one ELSE StopsAfterFirstAdded(one, Tail(items))
AddItems(st, items) ==
    IF items = <<>> THEN st
    ELSE AddItems(addComponent(st, Head(items)), Tail(items))

\* const addComponent = async (componentName) => ...
addComponent(st, componentName) ==
    LET fresh == [st EXCEPT !.added = FALSE]
    IN IF componentName = ""
         THEN Say(fresh, "specifyName", componentName)
       ELSE IF componentName = "all"
         THEN Say(AddItems(fresh, availableComponents \o availableThemes),
                  "successAll", componentName)
       ELSE IF ~isValidComponent(componentName)
         THEN Say(fresh, "notAvailable", componentName)
       ELSE Report(AddByKind(fresh, componentName), componentName)

InitCli ==
    /\ \E pre \in SUBSET Files :
          /\ Cardinality(pre) <= MaxPreexisting
          /\ project = [f \in Files |-> IF f \in pre THEN "user" ELSE "absent"]
    /\ broken \in BrokenChoices
    /\ output = <<>>
    /\ lastName = ""
    /\ runs = 0

\* the tool is not run
CliIdle ==
    /\ project = [f \in Files |-> "absent"]
    /\ broken = {}
    /\ output = <<>>
    /\ lastName = ""
    /\ runs = 0

\* main() with command "add": await addComponent(componentName)
Add(componentName) ==
    /\ runs < MaxRuns
    /\ LET done == addComponent([project |-> project, broken |-> broken,
                                 out |-> <<>>, ok |-> TRUE, added |-> FALSE],
                                componentName)
       IN /\ project' = done.project
          /\ output' = done.out
    /\ lastName' = componentName
    /\ runs' = runs + 1
    /\ UNCHANGED <<broken, toastVars, themeVars, uiVars>>

NextCli == \E componentName \in Requests : Add(componentName)


(***************************************************************************)
(* AlertProvider.  The Alert it renders gets visible, style,               *)
(* dismissOnBackdropPress and the content from the three state cells, and  *)
(* hideAlert as its onDismiss.                                             *)
(***************************************************************************)
Undefined == "undefined"
Contents == {"confirm", "warning", "details"}
Styles == {"wide", "narrow"}
\* AlertOptions, both fields optional
AlertOptionsValues ==
    [style : Styles \cup {Undefined},
     dismissOnBackdropPress : {"true", "false", Undefined}]
\* options = {}
EmptyOptions == [style |-> Undefined, dismissOnBackdropPress |-> Undefined]
\* what a caller passes as options: an AlertOptions, or nothing
OptionsArgs == AlertOptionsValues \cup {[omitted |-> TRUE]}

\* ---- bound of the model
MaxAlerts == 2

\* showAlert = ({ content, options = {} })
MergedWithPrevious(options) ==
    IF options = [omitted |-> TRUE] THEN alertOptions ELSE options
OptionsOrDefault(options) ==
    IF options = [omitted |-> TRUE] THEN EmptyOptions ELSE options

InitAlert ==
    /\ isVisible = FALSE
    /\ alertContent = "null"
    /\ alertOptions = EmptyOptions
    /\ lastAlertOp = "none"
    /\ alertCalls = 0
    /\ lastShowAlert = [content |-> "null", options |-> [omitted |-> TRUE],
                        before |-> EmptyOptions]

\* the alert provider is not in use
AlertIdle == InitAlert

\* const hideAlert = () => { setIsVisible(false); }
HideAlertToggles ==
    /\ isVisible' = ~isVisible
    /\ UNCHANGED <<alertContent, alertOptions, alertCalls, lastShowAlert>>
hideAlert ==
    /\ isVisible' = FALSE
    /\ UNCHANGED <<alertContent, alertOptions, alertCalls, lastShowAlert>>

\* const showAlert = ({ content, options = {} }) => { ... }
ShowAlert(content, options) ==
    /\ alertCalls < MaxAlerts
    /\ alertContent' = content
    /\ alertOptions' = OptionsOrDefault(options)
    /\ isVisible' = TRUE
    /\ alertCalls' = alertCalls + 1
    /\ lastAlertOp' = "show"
    /\ lastShowAlert' = [content |-> content, options |-> options,
                         before |-> alertOptions]
    /\ UNCHANGED <<hookVars, toastVars, themeVars, cliVars, inputVars, buttonVars, controlVars>>

HideAlert ==
    /\ hideAlert
    /\ lastAlertOp' = "hide"
    /\ UNCHANGED <<hookVars, toastVars, themeVars, cliVars, inputVars, buttonVars, controlVars>>

\* the displayed Alert calls its onDismiss prop, which is hideAlert
AlertDismissed ==
    /\ isVisible
    /\ hideAlert
    /\ lastAlertOp' = "dismiss"
    /\ UNCHANGED <<hookVars, toastVars, themeVars, cliVars, inputVars, buttonVars, controlVars>>

NextAlert ==
    \/ \E content \in Contents, options \in OptionsArgs : ShowAlert(content, options)
    \/ HideAlert
    \/ AlertDismissed

(***************************************************************************)
(* TextInput.  A render is a function of the props; the part modelled is   *)
(* the row below the input (error message, spacer, counter).  error,       *)
(* counter and disabled count as false when omitted.                       *)
(***************************************************************************)
InputPropsValues ==
    [error : BOOLEAN,
     errorMessage : {Undefined, "", "Required"},
     retainErrorMessageSpace : {Undefined, "true", "false"},
     counter : BOOLEAN,
     disabled : BOOLEAN,
     onFocus : BOOLEAN,      \* whether the caller passes the callback
     onBlur : BOOLEAN]

\* JavaScript truthiness of an optional string
StringTruthy(str) == str # Undefined /\ str # ""

\* retainErrorMessageSpace = true
RetainOrDefault(p) == p.retainErrorMessageSpace # "false"

\* error && errorMessage && !disabled
ShowsErrorWhenDisabled(p) == p.error /\ StringTruthy(p.errorMessage) /\ p.disabled
ShowsErrorMessage(p) == p.error /\ StringTruthy(p.errorMessage) /\ ~p.disabled

\* counter && !disabled
ShowsCounter(p) == p.counter /\ ~p.disabled

\* retainErrorMessageSpace && (!error || !errorMessage)
RetainsSpace(p) ==
    RetainOrDefault(p) /\ (~p.error \/ ~StringTruthy(p.errorMessage))

\* the condition under which <View style={styles.bottomContainer}> is rendered
HasBottomRow(p) == ShowsErrorMessage(p) \/ ShowsCounter(p) \/ RetainsSpace(p)

\* the row below the input, as rendered
RenderBelow(p) ==
    [row |-> HasBottomRow(p),
     errorText |-> IF HasBottomRow(p) /\ ShowsErrorMessage(p)
                     THEN p.errorMessage ELSE "none",
     spacer |-> HasBottomRow(p) /\ ~ShowsErrorMessage(p),
     counter |-> HasBottomRow(p) /\ ShowsCounter(p)]

NoInputEvent == [event |-> "none", called |-> "none"]

InitInput ==
    /\ inputProps \in InputPropsValues
    /\ isFocused = FALSE
    /\ inputView = RenderBelow(inputProps)
    /\ inputEvent = NoInputEvent

\* no TextInput is rendered
InputIdle ==
    /\ inputProps = [error |-> FALSE, errorMessage |-> Undefined,
                     retainErrorMessageSpace |-> Undefined, counter |-> FALSE,
                     disabled |-> FALSE, onFocus |-> FALSE, onBlur |-> FALSE]
    /\ isFocused = FALSE
    /\ inputView = RenderBelow(inputProps)
    /\ inputEvent = NoInputEvent

\* const handleFocus = useCallback((e) => { if (!disabled) { ... } })
FocusIgnoresDisabled(event) ==
    /\ isFocused' = TRUE
    /\ inputEvent' = [event |-> event,
                      called |-> IF inputProps.onFocus THEN "onFocus" ELSE "none"]
handleFocus(event) ==
    IF ~inputProps.disabled
      THEN /\ isFocused' = TRUE
           /\ inputEvent' = [event |-> event,
                             called |-> IF inputProps.onFocus THEN "onFocus" ELSE "none"]
      ELSE /\ isFocused' = isFocused
           /\ inputEvent' = [event |-> event, called |-> "none"]

\* the native input reports a focus event
InputFocusEvent ==
    /\ handleFocus("focus")
    /\ UNCHANGED <<inputProps, inputView>>
    /\ UNCHANGED <<hookVars, toastVars, themeVars, cliVars, alertVars, buttonVars, controlVars>>

\* the native input reports a blur event: handleBlur
InputBlurEvent ==
    /\ isFocused' = FALSE
    /\ inputEvent' = [event |-> "blur",
                      called |-> IF inputProps.onBlur THEN "onBlur" ELSE "none"]
    /\ UNCHANGED <<inputProps, inputView>>
    /\ UNCHANGED <<hookVars, toastVars, themeVars, cliVars, alertVars, buttonVars, controlVars>>

\* the Pressable around the input is pressed: if (!disabled) focus()
InputPressed ==
    /\ ~inputProps.disabled
    /\ handleFocus("press")
    /\ UNCHANGED <<inputProps, inputView>>
    /\ UNCHANGED <<hookVars, toastVars, themeVars, cliVars, alertVars, buttonVars, controlVars>>

\* the parent renders the TextInput with new props
InputRerender(p) ==
    /\ p # inputProps
    /\ inputProps' = p
    /\ inputView' = RenderBelow(p)
    /\ UNCHANGED <<isFocused, inputEvent>>
    /\ UNCHANGED <<hookVars, toastVars, themeVars, cliVars, alertVars, buttonVars, controlVars>>

NextInput ==
    \/ InputFocusEvent
    \/ InputBlurEvent
    \/ InputPressed
    \/ \E p \in InputPropsValues : InputRerender(p)

(***************************************************************************)
(* Button.  Colours are symbolic: a theme colour is <<"theme", name>>, a   *)
(* colour passed by the caller is <<"custom", string>>.  disabled counts   *)
(* as false when omitted; outlined and elevated default to false.          *)
(***************************************************************************)
Variants == {"primary", "secondary", "tertiary", "success", "error"}
CustomColors == {"#ff8800"}
CustomTextColors == {"#222222"}

ButtonPropsValues ==
    [disabled : BOOLEAN,
     color : {Undefined, ""} \cup CustomColors,
     textColor : {Undefined, ""} \cup CustomTextColors,
     outlined : BOOLEAN,
     elevated : BOOLEAN,
     variant : Variants \cup {Undefined}]

ThemeColor(name) == <<"theme", name>>
CustomColor(str) == <<"custom", str>>
Transparent == <<"transparent">>

\* the default branch of each switch (variant)
VariantOrDefault(variant) == IF variant \in Variants THEN variant ELSE "primary"

\* theme.colors.<variant>, theme.colors.elevated<Variant>, theme.colors.on<Variant>
VariantColor(variant) == ThemeColor(VariantOrDefault(variant))
ElevatedColor(variant) == ThemeColor("elevated_" \o VariantOrDefault(variant))
OnVariantColor(variant) == ThemeColor("on_" \o VariantOrDefault(variant))

\* const color = (() => { ... })()
CustomBeforeDisabled(p) ==
    IF StringTruthy(p.color) THEN CustomColor(p.color)
    ELSE IF p.disabled THEN ThemeColor("backgroundDisabled")
    ELSE IF p.outlined /\ ~p.elevated THEN Transparent
    ELSE IF ~p.elevated THEN VariantColor(p.variant)
    ELSE ElevatedColor(p.variant)
BackgroundColor(p) ==
    IF p.disabled THEN ThemeColor("backgroundDisabled")
    ELSE IF StringTruthy(p.color) THEN CustomColor(p.color)
    ELSE IF p.outlined /\ ~p.elevated THEN Transparent
    ELSE IF ~p.elevated THEN VariantColor(p.variant)
    ELSE ElevatedColor(p.variant)

\* const textColor = (() => { ... })()
TextColor(p) ==
    IF p.disabled THEN ThemeColor("onBackgroundDisabled")
    ELSE IF StringTruthy(p.textColor) THEN CustomColor(p.textColor)
    ELSE IF p.outlined \/ p.elevated THEN VariantColor(p.variant)
    ELSE OnVariantColor(p.variant)

\* const borderColor = (() => { ... })()
BorderAlwaysPrimary(p) == ThemeColor("primary")
BorderColor(p) == VariantColor(p.variant)

NoBorder == <<"none">>

\* the style of the Pressable and the colour of the text
RenderButton(p, hovered) ==
    [backgroundColor |-> BackgroundColor(p),
     textColor |-> TextColor(p),
     borderWidth |-> IF p.outlined THEN 1 ELSE 0,
     borderColor |-> IF p.outlined THEN BorderColor(p) ELSE NoBorder,
     hovered |-> ~p.disabled /\ hovered,
     disabled |-> p.disabled]

InitButton ==
    /\ buttonProps \in ButtonPropsValues
    /\ isHovered = FALSE
    /\ buttonView = RenderButton(buttonProps, isHovered)

\* no Button is rendered
ButtonIdle ==
    /\ buttonProps = [disabled |-> FALSE, color |-> Undefined,
                      textColor |-> Undefined, outlined |-> FALSE,
                      elevated |-> FALSE, variant |-> Undefined]
    /\ isHovered = FALSE
    /\ buttonView = RenderButton(buttonProps, isHovered)

\* onHoverIn={() => { if (!disabled) setIsHovered(true) }}
ButtonHoverIn ==
    /\ isHovered' = IF ~buttonProps.disabled THEN TRUE ELSE isHovered
    /\ buttonView' = RenderButton(buttonProps, isHovered')
    /\ UNCHANGED buttonProps
    /\ UNCHANGED <<hookVars, toastVars, themeVars, cliVars, alertVars, inputVars, controlVars>>

\* onHoverOut={() => { setIsHovered(false) }}
ButtonHoverOut ==
    /\ isHovered' = FALSE
    /\ buttonView' = RenderButton(buttonProps, isHovered')
    /\ UNCHANGED buttonProps
    /\ UNCHANGED <<hookVars, toastVars, themeVars, cliVars, alertVars, inputVars, controlVars>>

\* the parent renders the Button with new props
ButtonRerender(p) ==
    /\ p # buttonProps
    /\ buttonProps' = p
    /\ buttonView' = RenderButton(p, isHovered)
    /\ UNCHANGED isHovered
    /\ UNCHANGED <<hookVars, toastVars, themeVars, cliVars, alertVars, inputVars, controlVars>>

NextButton ==
    \/ ButtonHoverIn
    \/ ButtonHoverOut
    \/ \E p \in ButtonPropsValues : ButtonRerender(p)

(***************************************************************************)
(* SegmentedControl.  Tabs are numbered from 0 as by values.map; values is *)
(* represented by its length, selectedIndices by the set of its elements   *)
(* (it is only used through includes), which may name tabs that do not     *)
(* exist.                                                                  *)
(***************************************************************************)
MaxTabs == 3

ControlPropsValues ==
    [count : 0..MaxTabs,
     selectedIndices : SUBSET (0..MaxTabs),
     disabled : BOOLEAN]

\* const isSelected = selectedIndices.includes(index)
IsSelected(p, index) == index \in p.selectedIndices

\* onPress={() => onTabPress(index)}
OneBased(index) == index + 1
TabPressArg(index) == index

\* values.map((valueElement, index) => <Pressable ... />)
RenderTabs(p) ==
    [index \in 0..(p.count - 1) |->
        [selected |-> IsSelected(p, index),
         contentColor |-> IF IsSelected(p, index)
                            THEN "selectedContent" ELSE "unselectedContent",
         first |-> index = 0,
         last |-> index = p.count - 1,
         onPressArg |-> TabPressArg(index),
         disabled |-> p.disabled]]

NotPressed == -1
NoControlEvent == [pressed |-> NotPressed, disabled |-> FALSE, called |-> {}]

InitControl ==
    /\ controlProps \in ControlPropsValues
    /\ controlView = RenderTabs(controlProps)
    /\ controlEvent = NoControlEvent

\* no SegmentedControl is rendered
ControlIdle ==
    /\ controlProps = [count |-> 0, selectedIndices |-> {}, disabled |-> FALSE]
    /\ controlView = RenderTabs(controlProps)
    /\ controlEvent = NoControlEvent

\* the user presses tab `index`; a disabled Pressable does not call onPress.
\* controlEvent records the press, the disabled prop at that moment and the
\* arguments onTabPress was called with.
TabPressed(index) ==
    /\ index \in DOMAIN controlView
    /\ controlEvent' =
         [pressed |-> index,
          disabled |-> controlProps.disabled,
          called |-> IF controlView[index].disabled
                       THEN {} ELSE {controlView[index].onPressArg}]
    /\ UNCHANGED <<controlProps, controlView>>
    /\ UNCHANGED <<hookVars, toastVars, themeVars, cliVars, alertVars, inputVars, buttonVars>>

\* the parent renders the control with new props
ControlRerender(p) ==
    /\ p # controlProps
    /\ controlProps' = p
    /\ controlView' = RenderTabs(p)
    /\ UNCHANGED controlEvent
    /\ UNCHANGED <<hookVars, toastVars, themeVars, cliVars, alertVars, inputVars, buttonVars>>

NextControl ==
    \/ \E index \in 0..(MaxTabs - 1) : TabPressed(index)
    \/ \E p \in ControlPropsValues : ControlRerender(p)

(***************************************************************************)
(* The hooks useToast and useAlert.  A component calls a hook during its   *)
(* render, either below the hook's provider or not; the context it reads   *)
(* is the provider's value or the default of createContext, undefined.     *)
(***************************************************************************)
MaxHookCalls == 4

\* <ToastContext.Provider value={{ showToast, hideToast }}>
ToastContextValue == {"showToast", "hideToast"}
\* <AlertContext.Provider value={{ showAlert, hideAlert }}>
AlertContextValue == {"showAlert", "hideAlert"}

\* createContext<... | undefined>(undefined)
ContextUndefined == [defined |-> FALSE, fns |-> {}]

\* useContext(Context), called below a provider with this value or not
useContext(inside, value) ==
    IF inside THEN [defined |-> TRUE, fns |-> value] ELSE ContextUndefined

Throws(message) == [outcome |-> "throws", error |-> message, value |-> ContextUndefined]
Returns(context) == [outcome |-> "returns", error |-> "", value |-> context]

\* export const useToast = () => { ... }
UseToastUnchecked(context) == Returns(context)
useToast(context) ==
    IF context = ContextUndefined
      THEN Throws("useToast must be used within a ToastProvider")
      ELSE Returns(context)

\* export const useAlert = () => { ... }
useAlert(context) ==
    IF context = ContextUndefined
      THEN Throws("useAlert must be used within a AlertProvider")
      ELSE Returns(context)

InitHooks == hookLog = <<>>

\* no component has called a hook
HooksIdle == InitHooks

\* a component renders and calls useToast()
UseToast(inside) ==
    /\ Len(hookLog) < MaxHookCalls
    /\ hookLog' = Append(hookLog,
                         [hook |-> "useToast", inside |-> inside,
                          result |-> useToast(useContext(inside, ToastContextValue))])
    /\ UNCHANGED <<toastVars, themeVars, cliVars, alertVars, inputVars,
                   buttonVars, controlVars>>

\* a component renders and calls useAlert()
UseAlert(inside) ==
    /\ Len(hookLog) < MaxHookCalls
    /\ hookLog' = Append(hookLog,
                         [hook |-> "useAlert", inside |-> inside,
                          result |-> useAlert(useContext(inside, AlertContextValue))])
    /\ UNCHANGED <<toastVars, themeVars, cliVars, alertVars, inputVars,
                   buttonVars, controlVars>>

NextHooks ==
    \/ \E inside \in BOOLEAN : UseToast(inside)
    \/ \E inside \in BOOLEAN : UseAlert(inside)

UiIdle == AlertIdle /\ InputIdle /\ ButtonIdle /\ ControlIdle /\ HooksIdle

(***************************************************************************)
(* Properties of the ToastProvider                                         *)
(***************************************************************************)

\* C1: at most one auto-dismiss timer is pending in every reachable state,
\* and it is the one timeoutRef holds: showToast cancels the pending timer
\* before it starts a new one.
C1_AtMostOneTimerPending ==
    /\ Cardinality(timers) <= 1
    /\ \A t \in timers : timeoutRef = JsNumber(t.handle)

\* a showToast that started a timer while the timer of the toast before it
\* was pending or had been started
C1_Witness_TimerReplaced ==
    /\ lastOp = "show"
    /\ timers # {}
    /\ nextHandle >= 3

\* a toast is displayed since the last showToast, which gave a number as
\* duration (3000 when omitted), and nothing was called after it
ShownWithNumber(id) ==
    /\ currentToast # NULL
    /\ currentToast.id = id
    /\ lastOp = "show"
    /\ IsNumber(WithDefault(lastDuration))

\* C2: after showToast with a numeric duration, the toast is eventually
\* hidden by its timer unless showToast or hideToast is called first.
C2_NumericDurationEventuallyHides ==
    \A id \in 0..(MaxToasts - 1) :
        ShownWithNumber(id) ~> (currentToast = NULL \/ nextIdRef > id + 1)

\* the toast on display was shown with duration "infinite"
InfiniteShown == currentToast # NULL /\ IsInfinite(lastDuration)

\* C3: after showToast with duration "infinite" no timer is pending, and the
\* toast stays displayed until hideToast, onDismiss or a later showToast.
C3_InfiniteNeverAutoDismissed ==
    /\ [](InfiniteShown => timers = {} /\ timeoutRef = NULL)
    /\ [][InfiniteShown /\ currentToast' # currentToast
            => lastOp' \in {"show", "hide", "dismiss"}]_vars

\* an "infinite" toast that replaced a toast whose timer had been started
C3_Witness_InfiniteAfterTimed ==
    /\ InfiniteShown
    /\ lastOp = "show"
    /\ nextHandle > 1

\* C4: hideToast leaves no toast displayed and no timer pending, from any
\* state; with no toast displayed (so also right after a hideToast) it
\* changes nothing.
C4_HideToastClearsAndIsIdempotent ==
    /\ [](lastOp = "hide" => currentToast = NULL /\ timers = {} /\ timeoutRef = NULL)
    /\ [][currentToast = NULL /\ lastOp' = "hide"
            => UNCHANGED <<currentToast, nextIdRef, timeoutRef, timers, nextHandle>>]_vars

\* hideToast was called after a toast with a timer had been shown
C4_Witness_HiddenAfterTimedToast ==
    /\ lastOp = "hide"
    /\ IsNumber(WithDefault(lastDuration))
    /\ nextHandle > 1

\* C18 as stated: a showToast issued while a toast is displayed is queued,
\* so the toast on display stays on display.
C18_ShowToastQueues ==
    [][(currentToast # NULL /\ nextIdRef' = nextIdRef + 1)
         => currentToast' = currentToast]_vars

\* C18 as amended: showToast puts its toast on display at once, also while
\* another toast is displayed; that toast is replaced and its timer is
\* cancelled, so nothing is queued.
C18_ShowToastReplaces ==
    [][nextIdRef' = nextIdRef + 1
         => (/\ currentToast' # NULL
             /\ currentToast'.id = nextIdRef
             /\ \A t \in timers' : t \notin timers)]_vars

\* showToast was called while the toast shown before it was on display
C18_Witness_ToastReplaced ==
    /\ lastOp = "show"
    /\ replaced # NULL
    /\ currentToast # NULL
    /\ currentToast.id = replaced.id + 1

\* C24: whenever an auto-dismiss timer is pending, a toast is displayed.
C24_PendingTimerImpliesToast ==
    timers # {} => currentToast # NULL

\* the second toast is displayed with its timer pending, after a hideToast
C24_Witness_TimerOfSecondToast ==
    /\ timers # {}
    /\ currentToast # NULL
    /\ currentToast.id = 1
    /\ replaced = NULL
    /\ lastOp = "show"

\* C25: a timer that expires and hides the displayed toast was started by
\* the showToast that displayed this toast.
C25_TimerHidesItsOwnToast ==
    [][ \A t \in timers :
          ( /\ t.remaining = 0
            /\ t \notin timers'
            /\ lastOp' = "expire"
            /\ currentToast # NULL
            /\ currentToast' = NULL )
          => [handle |-> t.handle, id |-> currentToast.id] \in startedFor
      ]_vars

\* the timer of the third toast has expired, after two timed toasts before it
C25_Witness_ThirdTimerExpired ==
    /\ lastOp = "expire"
    /\ currentToast = NULL
    /\ nextIdRef = 3
    /\ Cardinality(startedFor) = 3
    /\ timers = {}

\* C26: showToast gives the new toast the id nextIdRef, which is greater
\* than the id of every toast shown before, and advances nextIdRef past it;
\* nextIdRef never decreases, whatever hideToast calls come in between.
C26_IdsStrictlyIncrease ==
    /\ [](currentToast # NULL => currentToast.id < nextIdRef)
    /\ [](replaced # NULL /\ currentToast # NULL => replaced.id < currentToast.id)
    /\ [][ /\ nextIdRef' >= nextIdRef
           /\ (currentToast' # NULL /\ currentToast' # currentToast)
              => (currentToast'.id = nextIdRef /\ nextIdRef' = nextIdRef + 1)
         ]_vars

\* a toast shown after a hideToast has a new id
C26_Witness_NewIdAfterHide ==
    /\ currentToast # NULL
    /\ currentToast.id = 2
    /\ replaced = NULL
    /\ nextIdRef = 3

(***************************************************************************)
(* Properties of the ThemeProvider                                         *)
(***************************************************************************)

\* C5: once every setItem has completed, and none failed, the value stored
\* under "themeMode" is the provider's themeMode.
C5_StoredModeIsThemeMode ==
    (pendingWrites = NoWrites /\ "save" \notin errors) => storage = themeMode

\* C6: if the storage held a valid mode at mount and setThemeMode is not
\* called, then once the load and every save have completed without a
\* failure, themeMode and the stored value are that mode.
C6_SavedModeLoadedOnMount ==
    ( /\ IsStoredMode(storedAtMount)
      /\ setCalls = 0
      /\ loadPc = "done"
      /\ pendingWrites = NoWrites
      /\ errors = {} )
    => (themeMode = storedAtMount /\ storage = storedAtMount)

\* C7: isDark is true exactly when themeMode is dark, or themeMode is system
\* and the system colour scheme is dark; theme is blueDark when isDark and
\* blueLight otherwise; a change of the system colour scheme while themeMode
\* is not system changes neither.
C7_IsDarkFollowsModeAndScheme ==
    /\ [](/\ isDark <=> (\/ themeMode = "dark"
                         \/ themeMode = "system" /\ systemColorScheme = "dark")
          /\ theme = IF isDark THEN "blueDark" ELSE "blueLight")
    /\ [][(/\ systemColorScheme' # systemColorScheme
           /\ themeMode # "system"
           /\ themeMode' = themeMode)
            => (isDark' = isDark /\ theme' = theme)]_vars

\* the application chose light while the device is in dark mode
C7_Witness_LightOnDarkDevice ==
    /\ themeMode = "light"
    /\ systemColorScheme = "dark"
    /\ ~isDark
    /\ theme = "blueLight"
    /\ setCalls > 0

\* C21: a failed read or write of the stored mode is caught and logged,
\* leaves themeMode as it was, and is not retried: the read is never issued
\* again, and a failed write issues no other request.
C21_StorageFailureCaught ==
    [][ /\ (loadPc = "reading" /\ loadPc' = "rejected")
           => themeMode' = themeMode
        /\ (loadPc = "rejected" /\ loadPc' # loadPc)
           => /\ loadPc' = "done"
              /\ "load" \in errors'
              /\ themeMode' = themeMode
              /\ pendingWrites' = pendingWrites
        /\ loadPc' = "reading" => loadPc = "reading"
        /\ \A m \in Modes :
             (pendingWrites'[m] < pendingWrites[m] /\ storage' # m)
             => /\ "save" \in errors'
                /\ themeMode' = themeMode
                /\ \A k \in Modes \ {m} : pendingWrites'[k] = pendingWrites[k]
      ]_vars

\* the load and the save of "dark" both failed; the mode is still dark
C21_Witness_BothFailed ==
    /\ errors = {"load", "save"}
    /\ themeMode = "dark"
    /\ storage # "dark"
    /\ loadPc = "done"
    /\ pendingWrites = NoWrites

\* C28: once setThemeMode has been called, the completion of the mount-time
\* load does not change themeMode.
C28_ChosenModeSurvivesLoad ==
    [][ (setCalls > 0 /\ loadPc # "done" /\ loadPc' = "done")
        => themeMode' = themeMode ]_vars

\* C29: themeMode is always light, dark or system; a load that finds no
\* stored value, or a string that is not a mode, leaves themeMode unchanged.
C29_ThemeModeIsAMode ==
    /\ [](themeMode \in Modes)
    /\ [][ (loadPc = "resolved" /\ loadPc' = "done" /\ loadValue \notin Modes)
           => themeMode' = themeMode ]_vars

\* the storage held "blue"; the load completed and the mode chosen meanwhile stays
C29_Witness_UnknownStoredString ==
    /\ storedAtMount = "blue"
    /\ loadValue = "blue"
    /\ loadPc = "done"
    /\ "load" \notin errors
    /\ themeMode = "light"

(***************************************************************************)
(* Properties of the command line tool                                     *)
(***************************************************************************)

\* the last run printed the message <<kind, name>>
Printed(out, kind, name) == <<kind, name>> \in Range(out)

\* C8: add <name>, when the file of <name> exists in the project, prints
\* "already exists" and leaves the file as it was.
C8_ExistingFileKept ==
    [][(/\ runs' = runs + 1
        /\ lastName' \in Files
        /\ project[lastName'] # "absent")
         => (/\ project'[lastName'] = project[lastName']
             /\ Printed(output', "exists", lastName'))]_vars

\* add Button was run on a project that had its own Button.tsx
C8_Witness_UserFileKept ==
    /\ runs >= 1
    /\ lastName = "Button"
    /\ project["Button"] = "user"
    /\ output = << <<"exists", "Button">> >>

\* C9: add <name>, with a name that is neither "all" nor available, prints
\* that the component is not available and changes no file of the project.
C9_UnknownNameChangesNothing ==
    [][(/\ runs' = runs + 1
        /\ lastName' \notin (Files \cup {"all", ""}))
         => (/\ project' = project
             /\ Printed(output', "notAvailable", lastName'))]_vars

\* add Buton was run
C9_Witness_UnknownName ==
    /\ runs >= 1
    /\ lastName = "Buton"
    /\ output = << <<"notAvailable", "Buton">> >>

\* C10: after add all, with no copy failing, every component file, every
\* context file and every theme file exists in the project.
C10_AddAllAddsEverything ==
    (/\ runs >= 1
     /\ lastName = "all"
     /\ \A f \in Files : ~Printed(output, "copyFailed", f))
    => \A f \in Files : project[f] # "absent"

\* C11: after add theme, with no copy failing, the theme file and
\* ThemeContext exist in the project.
C11_AddThemeAddsThemeSystem ==
    (/\ runs >= 1
     /\ lastName = "theme"
     /\ \A f \in Files : ~Printed(output, "copyFailed", f))
    => (project["blueTheme"] # "absent" /\ project["ThemeContext"] # "absent")

\* the component or theme whose copy brings a related context with it
RelatedContext ==
    [Toast |-> "ToastContext", Alert |-> "AlertContext", blueTheme |-> "ThemeContext"]

\* C19: a run that copies Toast, Alert or the theme, with no copy failing,
\* leaves the related context in the project, and leaves it as it was if it
\* was there before.
C19_RelatedContextAdded ==
    [][\A c \in DOMAIN RelatedContext :
        (/\ runs' = runs + 1
         /\ Printed(output', "created", c)
         /\ \A f \in Files : ~Printed(output', "copyFailed", f))
         => (/\ project'[RelatedContext[c]] # "absent"
             /\ project[RelatedContext[c]] # "absent"
                  => project'[RelatedContext[c]] = project[RelatedContext[c]])]_vars

\* add Alert copied Alert.tsx into a project that had its own AlertContext.tsx
C19_Witness_ContextKept ==
    /\ lastName = "Alert"
    /\ project["Alert"] = "package"
    /\ project["AlertContext"] = "user"
    /\ Printed(output, "created", "Alert")
    /\ Printed(output, "exists", "AlertContext")

\* C20: "Successfully added <name>" is printed only by a run that created
\* the file of <name>.
C20_SuccessOnlyIfCreated ==
    \A name \in Files :
        Printed(output, "success", name) => Printed(output, "created", name)

\* C30: when no copy fails, running add again with the same argument as the
\* run before leaves every file of the project as that run left it.
C30_AddIsIdempotent ==
    [][ (/\ runs >= 1
         /\ runs' = runs + 1
         /\ lastName' = lastName
         /\ broken = {})
        => project' = project ]_vars

\* add all was run twice: the second run found the files of the first
C30_Witness_AddAllTwice ==
    /\ runs = 2
    /\ lastName = "all"
    /\ broken = {}
    /\ project["Button"] = "package"
    /\ project["ToastContext"] = "package"
    /\ project["blueTheme"] = "package"
    /\ Printed(output, "exists", "Button")
    /\ Printed(output, "exists", "Toast")
    /\ Printed(output, "exists", "blueTheme")

(***************************************************************************)
(* Properties of the AlertProvider                                         *)
(***************************************************************************)

\* C12: after any sequence of showAlert calls, hideAlert calls and
\* dismissals, the alert is visible exactly when the last of them was a
\* showAlert.
C12_VisibleIffLastWasShow ==
    isVisible <=> lastAlertOp = "show"

\* an alert was shown again after an earlier one had been closed
C12_Witness_ShownAgain ==
    /\ isVisible
    /\ lastAlertOp = "show"
    /\ alertCalls = 2

\* C27: the content and options of the alert are those of the most recent
\* showAlert, with empty options when it passed none; hideAlert and a
\* dismissal leave content and options unchanged.
C27_ContentAndOptionsOfLastShow ==
    /\ [](alertCalls > 0
          => /\ alertContent = lastShowAlert.content
             /\ alertOptions = IF lastShowAlert.options = [omitted |-> TRUE]
                                 THEN EmptyOptions
                                 ELSE lastShowAlert.options)
    /\ [][ lastAlertOp' \in {"hide", "dismiss"}
           => (alertContent' = alertContent /\ alertOptions' = alertOptions) ]_vars

\* an alert without options was shown after one with both options, then hidden
C27_Witness_OptionsNotCarriedOver ==
    /\ alertCalls = 2
    /\ lastShowAlert.before = [style |-> "wide", dismissOnBackdropPress |-> "true"]
    /\ lastShowAlert.options = [omitted |-> TRUE]
    /\ alertOptions = EmptyOptions
    /\ lastAlertOp = "hide"
    /\ ~isVisible

(***************************************************************************)
(* Properties of the TextInput                                             *)
(***************************************************************************)

\* C13: when retainErrorMessageSpace is true or omitted, the row below the
\* input is rendered for every error, errorMessage, counter and disabled.
C13_SpaceRetained ==
    RetainOrDefault(inputProps) => inputView.row

C23_DisabledNeverFocused ==
    /\ [][ /\ inputProps.disabled
              => /\ isFocused' => isFocused
                 /\ inputEvent' # inputEvent => inputEvent'.called # "onFocus"
           /\ (inputEvent' # inputEvent /\ inputEvent'.event = "blur")
              => /\ ~isFocused'
                 /\ inputEvent'.called =
                      IF inputProps.onBlur THEN "onBlur" ELSE "none"
         ]_vars
    /\ [](inputEvent.event = "blur" => ~isFocused)

\* a focus event reached a disabled input that has an onFocus callback
C23_Witness_FocusEventWhileDisabled ==
    /\ inputProps.disabled
    /\ inputProps.onFocus
    /\ inputEvent = [event |-> "focus", called |-> "none"]
    /\ ~isFocused

(***************************************************************************)
(* Properties of the Button                                                *)
(***************************************************************************)

\* C15 as stated: whenever outlined is true, the Button has a transparent
\* background and a border in the colour of its variant (primary when no
\* variant is given).
C15_OutlinedIsTransparent ==
    buttonProps.outlined
    => /\ buttonView.backgroundColor = Transparent
       /\ buttonView.borderWidth = 1
       /\ buttonView.borderColor = VariantColor(buttonProps.variant)

\* C15 as amended: whenever outlined is true, the Button has a border in the
\* colour of its variant (primary when no variant is given); its background
\* is transparent when it is moreover not disabled, not elevated and has no
\* custom color.
C15_OutlinedBorderAndBackground ==
    buttonProps.outlined
    => /\ buttonView.borderWidth = 1
       /\ buttonView.borderColor = VariantColor(buttonProps.variant)
       /\ (~buttonProps.disabled /\ ~buttonProps.elevated
             /\ ~StringTruthy(buttonProps.color))
          => buttonView.backgroundColor = Transparent

\* a hovered, outlined success button with a transparent background
C15_Witness_OutlinedSuccess ==
    /\ buttonProps.outlined
    /\ ~buttonProps.disabled
    /\ ~buttonProps.elevated
    /\ buttonProps.color = Undefined
    /\ buttonProps.variant = "success"
    /\ isHovered
    /\ buttonView.backgroundColor = Transparent
    /\ buttonView.borderColor = ThemeColor("success")

\* C16: when disabled, background and text use the disabled colours whatever
\* else is set; otherwise a supplied color is the background and a supplied
\* textColor is the text colour, for every variant, outlined and elevated.
C16_ColourPrecedence ==
    /\ buttonProps.disabled
       => /\ buttonView.backgroundColor = ThemeColor("backgroundDisabled")
          /\ buttonView.textColor = ThemeColor("onBackgroundDisabled")
    /\ (~buttonProps.disabled /\ buttonProps.color \in CustomColors)
       => buttonView.backgroundColor = CustomColor(buttonProps.color)
    /\ (~buttonProps.disabled /\ buttonProps.textColor \in CustomTextColors)
       => buttonView.textColor = CustomColor(buttonProps.textColor)

\* a disabled button that was given custom colours, a variant and both styles
C16_Witness_DisabledWithCustomColours ==
    /\ buttonProps.disabled
    /\ buttonProps.color \in CustomColors
    /\ buttonProps.textColor \in CustomTextColors
    /\ buttonProps.outlined
    /\ buttonProps.elevated
    /\ buttonProps.variant = "error"
    /\ buttonView.backgroundColor = ThemeColor("backgroundDisabled")

(***************************************************************************)
(* Properties of the SegmentedControl                                      *)
(***************************************************************************)

\* C17: a press on tab i of an enabled control calls onTabPress with exactly
\* i; a press on a disabled control calls nothing; and tab i is rendered as
\* selected exactly when i is in selectedIndices.
C17_PressAndSelection ==
    /\ controlEvent.pressed # NotPressed
       => controlEvent.called =
             IF controlEvent.disabled THEN {} ELSE {controlEvent.pressed}
    /\ DOMAIN controlView = 0..(controlProps.count - 1)
    /\ \A index \in DOMAIN controlView :
          controlView[index].selected <=> index \in controlProps.selectedIndices

\* the last tab of three was pressed and is now one of two selected tabs
C17_Witness_LastTabPressed ==
    /\ controlProps.count = 3
    /\ controlEvent.pressed = 2
    /\ controlEvent.called = {2}
    /\ controlProps.selectedIndices = {0, 2}
    /\ controlView[2].selected
    /\ ~controlView[1].selected

(***************************************************************************)
(* Properties of the hooks                                                 *)
(***************************************************************************)

\* C22: a hook called outside its provider throws "<hook> must be used
\* within a <Provider>"; called inside, it returns the provider's value:
\* showToast and hideToast, or showAlert and hideAlert.
C22_HooksNeedTheirProvider ==
    \A i \in DOMAIN hookLog :
        LET call == hookLog[i]
        IN IF call.inside
             THEN /\ call.result.outcome = "returns"
                  /\ call.result.value.fns =
                       IF call.hook = "useToast"
                         THEN {"showToast", "hideToast"}
                         ELSE {"showAlert", "hideAlert"}
             ELSE /\ call.result.outcome = "throws"
                  /\ call.result.error =
                       IF call.hook = "useToast"
                         THEN "useToast must be used within a ToastProvider"
                         ELSE "useAlert must be used within a AlertProvider"

\* both hooks were called outside and inside their providers
C22_Witness_OutsideAndInside ==
    /\ Len(hookLog) = 4
    /\ hookLog[1].hook = "useToast" /\ ~hookLog[1].inside
    /\ hookLog[1].result.outcome = "throws"
    /\ hookLog[2].hook = "useToast" /\ hookLog[2].inside
    /\ hookLog[3].hook = "useAlert" /\ ~hookLog[3].inside
    /\ hookLog[4].hook = "useAlert" /\ hookLog[4].inside
    /\ hookLog[4].result.outcome = "returns"

(***************************************************************************)
(* Specifications                                                          *)
(***************************************************************************)
StartToast == InitToast /\ ThemeIdle /\ CliIdle /\ UiIdle
SpecToast == StartToast /\ [][NextToast]_vars

\* the host runs due timers, and time does not stop
FairToast == SpecToast /\ WF_vars(Elapse) /\ WF_vars(TimerFires)

StartTheme == InitTheme /\ ToastIdle /\ CliIdle /\ UiIdle
SpecTheme == StartTheme /\ [][NextTheme]_vars

\* the storage completes every request and the resumed function runs
FairTheme ==
    /\ SpecTheme
    /\ WF_vars(StorageReads \/ StorageReadFails)
    /\ WF_vars(LoadResumes)
    /\ WF_vars(\E m \in Modes : StorageWrites(m) \/ StorageWriteFails(m))

StartCli == InitCli /\ ToastIdle /\ ThemeIdle /\ UiIdle
SpecCli == StartCli /\ [][NextCli]_vars

StartAlert ==
    /\ InitAlert /\ InputIdle /\ ButtonIdle /\ ControlIdle
    /\ HooksIdle
    /\ ToastIdle /\ ThemeIdle /\ CliIdle
SpecAlert == StartAlert /\ [][NextAlert]_vars

StartInput ==
    /\ InitInput /\ AlertIdle /\ ButtonIdle /\ ControlIdle
    /\ HooksIdle
    /\ ToastIdle /\ ThemeIdle /\ CliIdle
SpecInput == StartInput /\ [][NextInput]_vars

StartButton ==
    /\ InitButton /\ AlertIdle /\ InputIdle /\ ControlIdle
    /\ HooksIdle
    /\ ToastIdle /\ ThemeIdle /\ CliIdle
SpecButton == StartButton /\ [][NextButton]_vars

StartControl ==
    /\ InitControl /\ AlertIdle /\ InputIdle /\ ButtonIdle
    /\ HooksIdle
    /\ ToastIdle /\ ThemeIdle /\ CliIdle
SpecControl == StartControl /\ [][NextControl]_vars

StartHooks ==
    /\ InitHooks /\ AlertIdle /\ InputIdle /\ ButtonIdle /\ ControlIdle
    /\ ToastIdle /\ ThemeIdle /\ CliIdle
SpecHooks == StartHooks /\ [][NextHooks]_vars

====
